---- MODULE Spec2Model ----
(***************************************************************************)
(* Model of the apple_silicon crate (src/src/soc.rs, src/src/error.rs).     *)
(*                                                                         *)
(* Strings are sequences of one-character strings; a byte buffer is a      *)
(* sequence of the same tokens plus InvalidByte, a byte that no UTF-8      *)
(* sequence contains.  A Result is a record tagged "Ok" or "Err".          *)
(***************************************************************************)
EXTENDS Integers, Sequences, FiniteSets, TLC

VARIABLES
    pc,        \* position of the operation under analysis
    cmdCpu,    \* what SystemCommand::execute returns for /usr/sbin/sysctl
    cmdGpu,    \* what SystemCommand::execute returns for system_profiler
    executed,  \* sequence of binaries passed to execute so far
    cpuRes,    \* result of cpu_info
    gpuRes,    \* result of gpu_info
    brand,     \* argument of AppleChip::from_brand_string
    chip,      \* AppleChip value
    specs,     \* ChipSpecs value
    socRes     \* result of SocInfo::new

vars == <<pc, cmdCpu, cmdGpu, executed, cpuRes, gpuRes, brand, chip, specs, socRes>>

----------------------------------------------------------------------------
\* Bounds

\* largest number of '\n'-separated segments in a generated sysctl output
MaxSegs == 5
\* largest number of '\n'-separated segments in a generated system_profiler output
MaxGpuSegs == 3
\* largest number of fragments concatenated into a generated brand string
MaxParts == 3

----------------------------------------------------------------------------
\* Results and errors

None == [tag |-> "None"]
Ok(v) == [tag |-> "Ok", val |-> v]

\* Error::Parse(String)
ErrParse(buffer) == [tag |-> "Err", kind |-> "Parse", buf |-> buffer]
\* Error::Io
ErrIo == [tag |-> "Err", kind |-> "Io"]
\* Error::Utf8Conversion
ErrUtf8 == [tag |-> "Err", kind |-> "Utf8Conversion"]
\* Error::ParseInt
ErrParseInt == [tag |-> "Err", kind |-> "ParseInt"]

IsOk(r) == r.tag = "Ok"
IsErr(r) == r.tag = "Err"
IsErrKind(r, k) == r.tag = "Err" /\ r.kind = k

----------------------------------------------------------------------------
\* Standard-library string operations, computed as the library computes them

NL == "\n"
CR == "\r"
InvalidByte == "<FF>"

\* CoreCount = u16
U16Max == 65535

Digits == {"0", "1", "2", "3", "4", "5", "6", "7", "8", "9"}

DigitVal(c) ==
    CASE c = "0" -> 0 [] c = "1" -> 1 [] c = "2" -> 2 [] c = "3" -> 3
      [] c = "4" -> 4 [] c = "5" -> 5 [] c = "6" -> 6 [] c = "7" -> 7
      [] c = "8" -> 8 [] c = "9" -> 9

\* char::is_whitespace, restricted to the characters of the model's alphabet
WhiteSpace == {" ", "\t", NL, CR}

\* String::from_utf8: fails on a byte that is part of no UTF-8 sequence,
\* otherwise yields the text
FromUtf8(bytes) ==
    IF \E i \in 1..Len(bytes) : bytes[i] = InvalidByte
    THEN ErrUtf8
    ELSE Ok(bytes)

\* first index of character c in s, 0 when absent
IndexOfChar(s, c) ==
    IF \E i \in 1..Len(s) : s[i] = c
    THEN CHOOSE i \in 1..Len(s) : s[i] = c /\ \A j \in 1..(i - 1) : s[j] # c
    ELSE 0

\* str::split(char): the segments between occurrences of c; never empty
RECURSIVE SplitChar(_, _)
SplitChar(s, c) ==
    LET i == IndexOfChar(s, c)
    IN  IF i = 0
        THEN <<s>>
        ELSE <<SubSeq(s, 1, i - 1)>> \o SplitChar(SubSeq(s, i + 1, Len(s)), c)

\* str::starts_with
StartsWith(s, pat) ==
    Len(s) >= Len(pat) /\ SubSeq(s, 1, Len(pat)) = pat

\* first index at which pat occurs in s, 0 when absent
IndexOfStr(s, pat) ==
    IF \E i \in 1..(Len(s) - Len(pat) + 1) : SubSeq(s, i, i + Len(pat) - 1) = pat
    THEN CHOOSE i \in 1..(Len(s) - Len(pat) + 1) :
            /\ SubSeq(s, i, i + Len(pat) - 1) = pat
            /\ \A j \in 1..(i - 1) : SubSeq(s, j, j + Len(pat) - 1) # pat
    ELSE 0

\* str::contains
Contains(s, pat) == IndexOfStr(s, pat) # 0

\* str::split(&str)
RECURSIVE SplitStr(_, _)
SplitStr(s, pat) ==
    LET i == IndexOfStr(s, pat)
    IN  IF i = 0
        THEN <<s>>
        ELSE <<SubSeq(s, 1, i - 1)>> \o SplitStr(SubSeq(s, i + Len(pat), Len(s)), pat)

\* str::trim_start
RECURSIVE TrimStart(_)
TrimStart(s) ==
    IF Len(s) > 0 /\ s[1] \in WhiteSpace THEN TrimStart(Tail(s)) ELSE s

\* str::lines: split on '\n', a final empty segment is not a line, and a
\* '\r' directly before a '\n' is removed
StripCr(seg) ==
    IF Len(seg) > 0 /\ seg[Len(seg)] = CR THEN SubSeq(seg, 1, Len(seg) - 1) ELSE seg

Lines(s) ==
    LET segs == SplitChar(s, NL)
        n    == Len(segs)
    IN  [i \in 1..(IF segs[n] = <<>> THEN n - 1 ELSE n) |->
            IF i < n THEN StripCr(segs[i]) ELSE segs[i]]

\* accumulation loop of <u16 as FromStr>::from_str over the digits
RECURSIVE ParseDigits(_, _)
ParseDigits(s, acc) ==
    IF s = <<>> THEN Ok(acc)
    ELSE IF s[1] \notin Digits THEN ErrParseInt
    ELSE IF acc * 10 + DigitVal(s[1]) > U16Max THEN ErrParseInt
    ELSE ParseDigits(Tail(s), acc * 10 + DigitVal(s[1]))

\* ParseU16 with the empty string read as zero
ParseU16EmptyZero(s) ==
    IF s = <<>> THEN Ok(0)
    ELSE IF s = <<"+">> \/ s = <<"-">> THEN ErrParseInt
    ELSE IF s[1] = "+" THEN ParseDigits(Tail(s), 0)
    ELSE ParseDigits(s, 0)

\* str::parse::<u16>: empty is an error, one leading '+' is accepted, a
\* sign alone is an error, '-' is not a digit
ParseU16(s) ==
    IF s = <<>> THEN ErrParseInt
    ELSE IF s = <<"+">> \/ s = <<"-">> THEN ErrParseInt
    ELSE IF s[1] = "+" THEN ParseDigits(Tail(s), 0)
    ELSE ParseDigits(s, 0)

----------------------------------------------------------------------------
\* cpu_info

SYSCTL_PATH == "/usr/sbin/sysctl"
SYSTEM_PROFILER_PATH == "/usr/sbin/system_profiler"

\* CpuParse with the brand name trimmed
CpuParseTrimmed(buffer) ==
    LET iter == SplitChar(buffer, NL)
    IN  IF Len(iter) < 4 THEN ErrParse(buffer)
        ELSE IF \E i \in 2..4 : IsErr(ParseU16(iter[i])) THEN ErrParseInt
        ELSE Ok(<<TrimStart(iter[1]), ParseU16(iter[2]).val,
                  ParseU16(iter[3]).val, ParseU16(iter[4]).val>>)

\* CpuParse with an empty brand name reported as Parse
CpuParseBrandRequired(buffer) ==
    LET iter == SplitChar(buffer, NL)
    IN  IF iter[1] = <<>> THEN ErrParse(buffer)
        ELSE IF Len(iter) < 2 THEN ErrParse(buffer)
        ELSE IF IsErr(ParseU16(iter[2])) THEN ErrParseInt
        ELSE IF Len(iter) < 3 THEN ErrParse(buffer)
        ELSE IF IsErr(ParseU16(iter[3])) THEN ErrParseInt
        ELSE IF Len(iter) < 4 THEN ErrParse(buffer)
        ELSE IF IsErr(ParseU16(iter[4])) THEN ErrParseInt
        ELSE Ok(<<iter[1], ParseU16(iter[2]).val,
                  ParseU16(iter[3]).val, ParseU16(iter[4]).val>>)

\* the positional parse of cpu_info, after execute and from_utf8 succeeded
CpuParse(buffer) ==
    LET iter == SplitChar(buffer, NL)
    IN  IF Len(iter) < 1 THEN ErrParse(buffer)
        ELSE LET cpu_brand_name == iter[1]
        IN  IF Len(iter) < 2 THEN ErrParse(buffer)
        ELSE LET num_cpu_cores == ParseU16(iter[2])
        IN  IF IsErr(num_cpu_cores) THEN num_cpu_cores
        ELSE IF Len(iter) < 3 THEN ErrParse(buffer)
        ELSE LET num_performance_cores == ParseU16(iter[3])
        IN  IF IsErr(num_performance_cores) THEN num_performance_cores
        ELSE IF Len(iter) < 4 THEN ErrParse(buffer)
        ELSE LET num_efficiency_cores == ParseU16(iter[4])
        IN  IF IsErr(num_efficiency_cores) THEN num_efficiency_cores
        ELSE Ok(<<cpu_brand_name, num_cpu_cores.val,
                  num_performance_cores.val, num_efficiency_cores.val>>)

\* cpu_info(cmd), where output is what cmd.execute returned
cpu_info(output) ==
    IF IsErr(output) THEN output
    ELSE LET buffer == FromUtf8(output.val)
         IN  IF IsErr(buffer) THEN buffer ELSE CpuParse(buffer.val)

----------------------------------------------------------------------------
\* gpu_info

LabelTotalCores == <<"T", "o", "t", "a", "l", " ", "N", "u", "m", "b", "e", "r", " ", "o", "f", " ", "C", "o", "r", "e", "s">>
SepColonSpace == <<":", " ">>

\* FindCoresLine with the last matching line instead of the first
FindCoresLineLast(ls) ==
    IF \E i \in 1..Len(ls) : StartsWith(TrimStart(ls[i]), LabelTotalCores)
    THEN CHOOSE i \in 1..Len(ls) :
            /\ StartsWith(TrimStart(ls[i]), LabelTotalCores)
            /\ \A j \in (i + 1)..Len(ls) : ~StartsWith(TrimStart(ls[j]), LabelTotalCores)
    ELSE 0

\* Iterator::find over buffer.lines(): index of the first line that, after
\* trim_start, starts with the label; 0 when there is none
FindCoresLine(ls) ==
    IF \E i \in 1..Len(ls) : StartsWith(TrimStart(ls[i]), LabelTotalCores)
    THEN CHOOSE i \in 1..Len(ls) :
            /\ StartsWith(TrimStart(ls[i]), LabelTotalCores)
            /\ \A j \in 1..(i - 1) : ~StartsWith(TrimStart(ls[j]), LabelTotalCores)
    ELSE 0

\* GpuParse with a matching line that has no separator reported as Parse
GpuParseNoSeparator(buffer) ==
    LET ls == Lines(buffer)
        i  == FindCoresLine(ls)
    IN  IF i = 0 THEN ErrParse(buffer)
        ELSE LET parts == SplitStr(ls[i], SepColonSpace)
             IN  IF Len(parts) < 2 THEN ErrParse(buffer)
                 ELSE ParseU16(parts[Len(parts)])

\* the scan of gpu_info, after execute and from_utf8 succeeded
GpuParse(buffer) ==
    LET ls == Lines(buffer)
        i  == FindCoresLine(ls)
    IN  IF i = 0 THEN ErrParse(buffer)
        ELSE LET parts == SplitStr(ls[i], SepColonSpace)
             IN  IF Len(parts) = 0 THEN ErrParse(buffer)
                 ELSE ParseU16(parts[Len(parts)])

\* gpu_info(cmd), where output is what cmd.execute returned
gpu_info(output) ==
    IF IsErr(output) THEN output
    ELSE LET buffer == FromUtf8(output.val)
         IN  IF IsErr(buffer) THEN buffer ELSE GpuParse(buffer.val)

----------------------------------------------------------------------------
\* AppleChip

AppleChip == {"M1", "M1Pro", "M1Max", "M1Ultra", "M2", "M2Pro", "M2Max",
              "M2Ultra", "M3", "M3Pro", "M3Max", "Unknown"}

LabelM1Pro == <<"M", "1", " ", "P", "r", "o">>
LabelM1Max == <<"M", "1", " ", "M", "a", "x">>
LabelM1Ultra == <<"M", "1", " ", "U", "l", "t", "r", "a">>
LabelM1 == <<"M", "1">>
LabelM2Pro == <<"M", "2", " ", "P", "r", "o">>
LabelM2Max == <<"M", "2", " ", "M", "a", "x">>
LabelM2Ultra == <<"M", "2", " ", "U", "l", "t", "r", "a">>
LabelM2 == <<"M", "2">>
LabelM3Pro == <<"M", "3", " ", "P", "r", "o">>
LabelM3Max == <<"M", "3", " ", "M", "a", "x">>
LabelM3 == <<"M", "3">>

\* from_brand_string with the bare M2 label tested before the M2 tiers
from_brand_string_m2_first(s) ==
    IF Contains(s, LabelM1Pro) THEN "M1Pro"
    ELSE IF Contains(s, LabelM1Max) THEN "M1Max"
    ELSE IF Contains(s, LabelM1Ultra) THEN "M1Ultra"
    ELSE IF Contains(s, LabelM1) THEN "M1"
    ELSE IF Contains(s, LabelM2) THEN "M2"
    ELSE IF Contains(s, LabelM2Pro) THEN "M2Pro"
    ELSE IF Contains(s, LabelM2Max) THEN "M2Max"
    ELSE IF Contains(s, LabelM2Ultra) THEN "M2Ultra"
    ELSE IF Contains(s, LabelM3Pro) THEN "M3Pro"
    ELSE IF Contains(s, LabelM3Max) THEN "M3Max"
    ELSE IF Contains(s, LabelM3) THEN "M3"
    ELSE "Unknown"

\* AppleChip::from_brand_string: the first arm whose label the brand contains
from_brand_string(s) ==
    IF Contains(s, LabelM1Pro) THEN "M1Pro"
    ELSE IF Contains(s, LabelM1Max) THEN "M1Max"
    ELSE IF Contains(s, LabelM1Ultra) THEN "M1Ultra"
    ELSE IF Contains(s, LabelM1) THEN "M1"
    ELSE IF Contains(s, LabelM2Pro) THEN "M2Pro"
    ELSE IF Contains(s, LabelM2Max) THEN "M2Max"
    ELSE IF Contains(s, LabelM2Ultra) THEN "M2Ultra"
    ELSE IF Contains(s, LabelM2) THEN "M2"
    ELSE IF Contains(s, LabelM3Pro) THEN "M3Pro"
    ELSE IF Contains(s, LabelM3Max) THEN "M3Max"
    ELSE IF Contains(s, LabelM3) THEN "M3"
    ELSE "Unknown"

ChipSpecs(cpu_tdp, gpu_tdp, cpu_bw, gpu_bw) ==
    [cpu_tdp |-> cpu_tdp, gpu_tdp |-> gpu_tdp, cpu_bw |-> cpu_bw, gpu_bw |-> gpu_bw]

\* get_specs with the M2Max record also given to M2Ultra
get_specs_m2_ultra(c) ==
    CASE c = "M1"      -> ChipSpecs(20, 20, 70, 70)
      [] c = "M1Pro"   -> ChipSpecs(30, 30, 200, 200)
      [] c = "M1Max"   -> ChipSpecs(30, 60, 250, 400)
      [] c = "M1Ultra" -> ChipSpecs(60, 120, 500, 800)
      [] c = "M2"      -> ChipSpecs(25, 15, 100, 100)
      [] c = "M2Pro"   -> ChipSpecs(30, 35, 0, 0)
      [] c \in {"M2Max", "M2Ultra"} -> ChipSpecs(30, 40, 0, 0)
      [] OTHER         -> ChipSpecs(0, 0, 0, 0)

\* AppleChip::get_specs
get_specs(c) ==
    CASE c = "M1"      -> ChipSpecs(20, 20, 70, 70)
      [] c = "M1Pro"   -> ChipSpecs(30, 30, 200, 200)
      [] c = "M1Max"   -> ChipSpecs(30, 60, 250, 400)
      [] c = "M1Ultra" -> ChipSpecs(60, 120, 500, 800)
      [] c = "M2"      -> ChipSpecs(25, 15, 100, 100)
      [] c = "M2Pro"   -> ChipSpecs(30, 35, 0, 0)
      [] c = "M2Max"   -> ChipSpecs(30, 40, 0, 0)
      [] OTHER         -> ChipSpecs(0, 0, 0, 0)

----------------------------------------------------------------------------
\* SocInfo

\* the record SocInfo::new builds from the cpu_info tuple t, the GPU core
\* count g and the ChipSpecs sp
SocInfo(t, g, sp) ==
    LET cpu_brand_name == t[1]
        num_cpu_cores  == t[2]
        e_core_count   == t[3]
        p_core_count   == t[4]
    IN  [cpu_brand_name |-> cpu_brand_name,
         num_cpu_cores  |-> num_cpu_cores,
         num_gpu_cores  |-> g,
         cpu_max_power  |-> sp.cpu_tdp,
         gpu_max_power  |-> sp.gpu_tdp,
         cpu_max_bw     |-> sp.cpu_bw,
         gpu_max_bw     |-> sp.gpu_bw,
         e_core_count   |-> e_core_count,
         p_core_count   |-> p_core_count]

----------------------------------------------------------------------------
\* Inputs: the outputs a command double (or the machine) can return

\* segs joined by '\n'
RECURSIVE JoinNl(_)
JoinNl(segs) ==
    IF Len(segs) = 1 THEN segs[1]
    ELSE segs[1] \o <<NL>> \o JoinNl(Tail(segs))

\* all sequences over S of length lo..hi
SeqsOf(S, lo, hi) == UNION {[1..k -> S] : k \in lo..hi}

\* the fragments of parts, concatenated
RECURSIVE Concat(_)
Concat(parts) ==
    IF parts = <<>> THEN <<>> ELSE parts[1] \o Concat(Tail(parts))

\* first segments of the sysctl outputs given to cpu_info
CpuBrands ==
    {<<>>,
     <<"A", "p", "p", "l", "e", " ", "M", "2">>,
     <<" ", "M", "1", " ">>}

\* later segments of the sysctl outputs given to cpu_info
CpuFields ==
    {<<>>,
     <<"8">>,
     <<"1", "0">>,
     <<"i", "n", "v", "a", "l", "i", "d">>,
     <<"6", "5", "5", "3", "5">>,
     <<"6", "5", "5", "3", "6">>,
     <<"+", "4">>,
     <<"-", "1">>}

CpuBuffers(brands, fields) ==
    {JoinNl(<<b>> \o fs) : b \in brands, fs \in SeqsOf(fields, 0, MaxSegs - 1)}

CpuOutcomes ==
    {Ok(buf) : buf \in CpuBuffers(CpuBrands, CpuFields)}
      \cup {ErrIo, Ok(<<InvalidByte>>), Ok(<<"M", "2", NL, InvalidByte, NL>>)}

\* lines of the system_profiler outputs given to gpu_info
GpuSegs ==
    {<<>>,
     <<"G", "r", "a", "p", "h", "i", "c", "s", "/", "D", "i", "s", "p", "l", "a", "y", "s", ":">>,
     <<" ", " ", "T", "o", "t", "a", "l", " ", "N", "u", "m", "b", "e", "r", " ", "o", "f", " ", "C", "o", "r", "e", "s", ":", " ", "1", "0">>,
     <<"T", "o", "t", "a", "l", " ", "N", "u", "m", "b", "e", "r", " ", "o", "f", " ", "C", "o", "r", "e", "s", ":", " ", "8">>,
     <<"\t", "T", "o", "t", "a", "l", " ", "N", "u", "m", "b", "e", "r", " ", "o", "f", " ", "C", "o", "r", "e", "s", ":", " ", "6", "5", "5", "3", "6">>,
     <<"T", "o", "t", "a", "l", " ", "N", "u", "m", "b", "e", "r", " ", "o", "f", " ", "C", "o", "r", "e", "s">>,
     <<" ", "T", "o", "t", "a", "l", " ", "N", "u", "m", "b", "e", "r", " ", "o", "f", " ", "C", "o", "r", "e", "s", ":", " ", "t", "e", "n">>,
     <<"C", "o", "r", "e", "s", ":", " ", "4">>,
     <<"T", "o", "t", "a", "l", " ", "N", "u", "m", "b", "e", "r", " ", "o", "f", " ", "C", "o", "r", "e", "s", ":", " ", "1", "0", "\r">>,
     <<" ", "T", "o", "t", "a", "l", " ", "N", "u", "m", "b", "e", "r", " ", "o", "f", " ", "C", "o", "r", "e", "s", ":", " ", "6", "5", "5", "3", "5">>}

GpuBuffers(segs) == {JoinNl(ls) : ls \in SeqsOf(segs, 1, MaxGpuSegs)}

GpuOutcomes ==
    {Ok(buf) : buf \in GpuBuffers(GpuSegs)}
      \cup {ErrIo, Ok(<<InvalidByte>>)}

\* fragments of the brand strings given to from_brand_string
BrandParts ==
    {<<"A", "p", "p", "l", "e", " ">>,
     <<"M">>,
     <<"M", "1">>,
     <<"M", "2">>,
     <<"M", "3">>,
     <<" ", "P", "r", "o">>,
     <<" ", "M", "a", "x">>,
     <<" ", "U", "l", "t", "r", "a">>}

ChipBrands == {Concat(ps) : ps \in SeqsOf(BrandParts, 0, MaxParts)}

\* outputs the machine can give to SocInfo::new
NewBrands ==
    {<<"I", "n", "t", "e", "l">>,
     <<"A", "p", "p", "l", "e", " ", "M", "1", " ", "P", "r", "o">>,
     <<"A", "p", "p", "l", "e", " ", "M", "2">>}

NewFields ==
    {<<>>,
     <<"8">>,
     <<"4">>,
     <<"i", "n", "v", "a", "l", "i", "d">>}

NewGpuSegs ==
    {<<"G", "r", "a", "p", "h", "i", "c", "s", "/", "D", "i", "s", "p", "l", "a", "y", "s", ":">>,
     <<" ", " ", "T", "o", "t", "a", "l", " ", "N", "u", "m", "b", "e", "r", " ", "o", "f", " ", "C", "o", "r", "e", "s", ":", " ", "1", "0">>,
     <<"T", "o", "t", "a", "l", " ", "N", "u", "m", "b", "e", "r", " ", "o", "f", " ", "C", "o", "r", "e", "s">>}

NewCpuOutcomes ==
    {Ok(buf) : buf \in CpuBuffers(NewBrands, NewFields)} \cup {ErrIo, Ok(<<InvalidByte>>)}

NewGpuOutcomes ==
    {Ok(buf) : buf \in GpuBuffers(NewGpuSegs)} \cup {ErrIo, Ok(<<InvalidByte>>)}

----------------------------------------------------------------------------
\* cpu_info against a command double

InitCpu ==
    /\ pc = "cpu_info"
    /\ cmdCpu \in CpuOutcomes
    /\ cmdGpu = None
    /\ executed = <<>>
    /\ cpuRes = None
    /\ gpuRes = None
    /\ brand = None
    /\ chip = None
    /\ specs = None
    /\ socRes = None

CpuInfoCall ==
    /\ pc = "cpu_info"
    /\ executed' = Append(executed, SYSCTL_PATH)
    /\ cpuRes' = cpu_info(cmdCpu)
    /\ pc' = "returned"
    /\ UNCHANGED <<cmdCpu, cmdGpu, gpuRes, brand, chip, specs, socRes>>

NextCpu == CpuInfoCall

SpecCpu == InitCpu /\ [][NextCpu]_vars

----------------------------------------------------------------------------
\* gpu_info against a command double

InitGpu ==
    /\ pc = "gpu_info"
    /\ cmdCpu = None
    /\ cmdGpu \in GpuOutcomes
    /\ executed = <<>>
    /\ cpuRes = None
    /\ gpuRes = None
    /\ brand = None
    /\ chip = None
    /\ specs = None
    /\ socRes = None

GpuInfoCall ==
    /\ pc = "gpu_info"
    /\ executed' = Append(executed, SYSTEM_PROFILER_PATH)
    /\ gpuRes' = gpu_info(cmdGpu)
    /\ pc' = "returned"
    /\ UNCHANGED <<cmdCpu, cmdGpu, cpuRes, brand, chip, specs, socRes>>

NextGpu == GpuInfoCall

SpecGpu == InitGpu /\ [][NextGpu]_vars

----------------------------------------------------------------------------
\* AppleChip::from_brand_string followed by AppleChip::get_specs

InitChip ==
    /\ pc = "from_brand_string"
    /\ cmdCpu = None
    /\ cmdGpu = None
    /\ executed = <<>>
    /\ cpuRes = None
    /\ gpuRes = None
    /\ brand \in ChipBrands
    /\ chip = None
    /\ specs = None
    /\ socRes = None

FromBrandString ==
    /\ pc = "from_brand_string"
    /\ chip' = from_brand_string(brand)
    /\ pc' = "get_specs"
    /\ UNCHANGED <<cmdCpu, cmdGpu, executed, cpuRes, gpuRes, brand, specs, socRes>>

GetSpecs ==
    /\ pc = "get_specs"
    /\ specs' = get_specs(chip)
    /\ pc' = "resolved"
    /\ UNCHANGED <<cmdCpu, cmdGpu, executed, cpuRes, gpuRes, brand, chip, socRes>>

NextChip == FromBrandString \/ GetSpecs

SpecChip == InitChip /\ [][NextChip]_vars

----------------------------------------------------------------------------
\* SocInfo::new

Init ==
    /\ pc = "new"
    /\ cmdCpu \in NewCpuOutcomes
    /\ cmdGpu \in NewGpuOutcomes
    /\ executed = <<>>
    /\ cpuRes = None
    /\ gpuRes = None
    /\ brand = None
    /\ chip = None
    /\ specs = None
    /\ socRes = None

\* NewCpuInfo without the early return on an error
NewCpuInfoNoReturn ==
    /\ pc = "new"
    /\ executed' = Append(executed, SYSCTL_PATH)
    /\ cpuRes' = cpu_info(cmdCpu)
    /\ socRes' = socRes
    /\ pc' = "cpu_done"
    /\ UNCHANGED <<cmdCpu, cmdGpu, gpuRes, brand, chip, specs>>

\* let (..) = cpu_info(&RealCommand)?
NewCpuInfo ==
    /\ pc = "new"
    /\ executed' = Append(executed, SYSCTL_PATH)
    /\ cpuRes' = cpu_info(cmdCpu)
    /\ IF IsErr(cpuRes')
       THEN socRes' = cpuRes' /\ pc' = "failed"
       ELSE socRes' = socRes /\ pc' = "cpu_done"
    /\ UNCHANGED <<cmdCpu, cmdGpu, gpuRes, brand, chip, specs>>

\* let num_gpu_cores = gpu_info(&RealCommand)?
NewGpuInfo ==
    /\ pc = "cpu_done"
    /\ executed' = Append(executed, SYSTEM_PROFILER_PATH)
    /\ gpuRes' = gpu_info(cmdGpu)
    /\ IF IsErr(gpuRes')
       THEN socRes' = gpuRes' /\ pc' = "failed"
       ELSE socRes' = socRes /\ pc' = "gpu_done"
    /\ UNCHANGED <<cmdCpu, cmdGpu, cpuRes, brand, chip, specs>>

\* classify, resolve, Ok(SocInfo { .. })
NewBuild ==
    /\ pc = "gpu_done"
    /\ brand' = cpuRes.val[1]
    /\ chip' = from_brand_string(brand')
    /\ specs' = get_specs(chip')
    /\ socRes' = Ok(SocInfo(cpuRes.val, gpuRes.val, specs'))
    /\ pc' = "done"
    /\ UNCHANGED <<cmdCpu, cmdGpu, executed, cpuRes, gpuRes>>

Next == NewCpuInfo \/ NewGpuInfo \/ NewBuild

Spec == Init /\ [][Next]_vars

----------------------------------------------------------------------------
\* Properties

\* the buffer the sysctl double returned, decoded
CpuText == FromUtf8(cmdCpu.val).val
\* the buffer the system_profiler double returned, decoded
GpuText == FromUtf8(cmdGpu.val).val

CpuDecoded == IsOk(cmdCpu) /\ IsOk(FromUtf8(cmdCpu.val))
GpuDecoded == IsOk(cmdGpu) /\ IsOk(FromUtf8(cmdGpu.val))

\* a segment made of digits only
IsDigitString(f) == Len(f) > 0 /\ \A i \in 1..Len(f) : f[i] \in Digits

\* the number a digit string denotes
RECURSIVE DecValue(_)
DecValue(f) ==
    IF f = <<>> THEN 0
    ELSE 10 * DecValue(SubSeq(f, 1, Len(f) - 1)) + DigitVal(f[Len(f)])

\* the generated segments that are decimal integers in 0..65535
DecimalFields == {f \in CpuFields : IsDigitString(f) /\ DecValue(f) <= U16Max}

\* text that str::parse::<u16> accepts: digits, optionally after one '+',
\* denoting a number of at most 65535
IsU16Text(f) ==
    LET d == IF f # <<>> /\ f[1] = "+" THEN Tail(f) ELSE f
    IN  IsDigitString(d) /\ DecValue(d) <= U16Max

\* C1: for an output "<brand>\n<total>\n<perf>\n<eff>\n" whose brand has no
\* newline and whose three numbers are decimal integers in 0..65535, cpu_info
\* returns Ok((brand, total, perf, eff)), the brand being line 0 untrimmed.
C1_CpuInfoFourLines ==
    pc = "returned" =>
        \A b \in CpuBrands : \A t \in DecimalFields : \A p \in DecimalFields :
          \A e \in DecimalFields :
            cmdCpu = Ok(b \o <<NL>> \o t \o <<NL>> \o p \o <<NL>> \o e \o <<NL>>)
                => cpuRes = Ok(<<b, DecValue(t), DecValue(p), DecValue(e)>>)

C1_Witness ==
    /\ pc = "returned"
    /\ cmdCpu = Ok(<<" ", "M", "1", " ", "\n", "8", "\n", "1", "0", "\n", "6", "5", "5", "3", "5", "\n">>)
    /\ cpuRes = Ok(<<<<" ", "M", "1", " ">>, 8, 10, 65535>>)

\* C2: when SocInfo::new succeeds, p_core_count is the integer of line 2,
\* e_core_count the integer of line 3, num_cpu_cores the integer of line 1
\* and cpu_brand_name is line 0 of the sysctl output.
C2_CoreCountsByLine ==
    (pc = "done" /\ IsOk(socRes)) =>
        LET iter == SplitChar(CpuText, NL)
        IN  /\ socRes.val.cpu_brand_name = iter[1]
            /\ socRes.val.num_cpu_cores = DecValue(iter[2])
            /\ socRes.val.p_core_count = DecValue(iter[3])
            /\ socRes.val.e_core_count = DecValue(iter[4])

\* the first position among lines 1..3 that is absent or is not u16 text;
\* 0 when all three are present and well formed
FirstOffending(iter) ==
    LET bad == {i \in 2..4 : i > Len(iter) \/ ~IsU16Text(iter[i])}
    IN  IF bad = {} THEN 0 ELSE CHOOSE i \in bad : \A j \in bad : i <= j

\* C3 as claimed: whenever cpu_info succeeds the brand name it returns is
\* not empty, an output with an empty first line being a failure.
C3_BrandNonEmpty ==
    (pc = "returned" /\ IsOk(cpuRes)) => cpuRes.val[1] # <<>>

\* C3 amended: whenever cpu_info succeeds the brand name is line 0 as it
\* stands, which may be empty; an output with an empty first line succeeds
\* exactly when lines 1..3 are present and well formed.
C3_BrandVerbatimMaybeEmpty ==
    (pc = "returned" /\ CpuDecoded) =>
        LET iter == SplitChar(CpuText, NL)
        IN  /\ IsOk(cpuRes) => cpuRes.val[1] = iter[1]
            /\ iter[1] = <<>> => (IsOk(cpuRes) <=> FirstOffending(iter) = 0)

C3_Witness ==
    /\ pc = "returned"
    /\ cmdCpu = Ok(<<"\n", "8", "\n", "1", "0", "\n", "8", "\n">>)
    /\ cpuRes = Ok(<<<<>>, 8, 10, 8>>)

\* C4: cpu_info fails at the first offending position among lines 1..3: with
\* Error::Parse carrying the decoded buffer when no segment is there, with
\* Error::ParseInt when the segment is there but is not a u16; either way no
\* tuple is returned.
C4_FirstOffendingLine ==
    (pc = "returned" /\ CpuDecoded) =>
        LET iter == SplitChar(CpuText, NL)
            i    == FirstOffending(iter)
        IN  i # 0 =>
              /\ ~IsOk(cpuRes)
              /\ i > Len(iter) => cpuRes = ErrParse(CpuText)
              /\ i <= Len(iter) => cpuRes = ErrParseInt

C4_Witness ==
    /\ pc = "returned"
    /\ cmdCpu = Ok(<<"A", "p", "p", "l", "e", " ", "M", "2", "\n">>)
    /\ cpuRes = ErrParseInt

\* a line of the form "<ws>Total Number of Cores: <n>", n a decimal integer
\* in 0..65535
IsCoresLine(line) ==
    LET t == TrimStart(line)
        k == Len(LabelTotalCores) + Len(SepColonSpace)
    IN  /\ StartsWith(t, LabelTotalCores \o SepColonSpace)
        /\ IsDigitString(SubSeq(t, k + 1, Len(t)))
        /\ DecValue(SubSeq(t, k + 1, Len(t))) <= U16Max

CoresLineValue(line) ==
    LET t == TrimStart(line)
    IN  DecValue(SubSeq(t, Len(LabelTotalCores) + Len(SepColonSpace) + 1, Len(t)))

\* the lines that begin with the label after leading whitespace is stripped
MatchingLines(ls) ==
    {i \in 1..Len(ls) : StartsWith(TrimStart(ls[i]), LabelTotalCores)}

\* C5: the first line that begins with "Total Number of Cores" after leading
\* whitespace decides gpu_info: when it is "<ws>Total Number of Cores: <n>"
\* the result is Ok(n), whatever lines precede or follow it.
C5_FirstMatchWins ==
    (pc = "returned" /\ GpuDecoded) =>
        LET ls == Lines(GpuText)
            m  == MatchingLines(ls)
        IN  m # {} =>
              LET i == CHOOSE x \in m : \A y \in m : x <= y
              IN  IsCoresLine(ls[i]) => gpuRes = Ok(CoresLineValue(ls[i]))

C5_Witness ==
    /\ pc = "returned"
    /\ cmdGpu = Ok(<<"G", "r", "a", "p", "h", "i", "c", "s", "/", "D", "i", "s", "p", "l", "a", "y", "s", ":", "\n", " ", " ", "T", "o", "t", "a", "l", " ", "N", "u", "m", "b", "e", "r", " ", "o", "f", " ", "C", "o", "r", "e", "s", ":", " ", "1", "0", "\n", "T", "o", "t", "a", "l", " ", "N", "u", "m", "b", "e", "r", " ", "o", "f", " ", "C", "o", "r", "e", "s", ":", " ", "8">>)
    /\ gpuRes = Ok(10)

\* C6: gpu_info fails with Error::Parse, carrying the decoded buffer, exactly
\* when no line begins with the label; when a line does and the last
\* ": "-separated segment of the first such line is not a u16, it fails with
\* Error::ParseInt.
C6_GpuErrors ==
    pc = "returned" =>
        /\ IsErrKind(gpuRes, "Parse") =>
              GpuDecoded /\ MatchingLines(Lines(GpuText)) = {}
        /\ GpuDecoded =>
              LET ls == Lines(GpuText)
                  m  == MatchingLines(ls)
              IN  /\ m = {} => gpuRes = ErrParse(GpuText)
                  /\ m # {} =>
                       LET i     == CHOOSE x \in m : \A y \in m : x <= y
                           parts == SplitStr(ls[i], SepColonSpace)
                       IN  ~IsU16Text(parts[Len(parts)]) => gpuRes = ErrParseInt

C6_Witness ==
    /\ pc = "returned"
    /\ cmdGpu = Ok(<<"T", "o", "t", "a", "l", " ", "N", "u", "m", "b", "e", "r", " ", "o", "f", " ", "C", "o", "r", "e", "s", "\n", " ", " ", "T", "o", "t", "a", "l", " ", "N", "u", "m", "b", "e", "r", " ", "o", "f", " ", "C", "o", "r", "e", "s", ":", " ", "1", "0">>)
    /\ gpuRes = ErrParseInt

LabelM3Ultra == <<"M", "3", " ", "U", "l", "t", "r", "a">>

\* the tier-qualified labels, each with the base identity of its generation
TierLabels ==
    {<<LabelM1Pro, "M1">>, <<LabelM1Max, "M1">>, <<LabelM1Ultra, "M1">>,
     <<LabelM2Pro, "M2">>, <<LabelM2Max, "M2">>, <<LabelM2Ultra, "M2">>,
     <<LabelM3Pro, "M3">>, <<LabelM3Max, "M3">>}

Classified == pc \in {"get_specs", "resolved"}

NoKnownLabel(s) ==
    ~Contains(s, LabelM1) /\ ~Contains(s, LabelM2) /\ ~Contains(s, LabelM3)

\* C7 as claimed: a brand containing a generation label followed by Pro, Max
\* or Ultra, for M1, M2 and M3, is never classified as the base identity of
\* that generation; one containing "M1 Pro" is M1Pro; one containing no known
\* label is Unknown.
C7_TierNeverBase ==
    Classified =>
        /\ \A tl \in TierLabels \cup {<<LabelM3Ultra, "M3">>} :
              Contains(brand, tl[1]) => chip # tl[2]
        /\ Contains(brand, LabelM1Pro) => chip = "M1Pro"
        /\ NoKnownLabel(brand) => chip = "Unknown"

\* C7 amended: the same for the eight tier-qualified labels that have an
\* identity; "M3 Ultra" has none, and a brand containing it and no label
\* tested earlier is classified as M3.
C7_TierNeverBaseAmended ==
    Classified =>
        /\ \A tl \in TierLabels : Contains(brand, tl[1]) => chip # tl[2]
        /\ Contains(brand, LabelM1Pro) => chip = "M1Pro"
        /\ NoKnownLabel(brand) => chip = "Unknown"
        /\ ( /\ Contains(brand, LabelM3Ultra)
             /\ ~Contains(brand, LabelM1) /\ ~Contains(brand, LabelM2)
             /\ ~Contains(brand, LabelM3Pro) /\ ~Contains(brand, LabelM3Max) )
              => chip = "M3"

C7_Witness ==
    /\ Classified
    /\ brand = <<"A", "p", "p", "l", "e", " ", "M", "2", " ", "U", "l", "t", "r", "a">>
    /\ chip = "M2Ultra"

\* C8: get_specs yields a record for each of the twelve identities; Unknown,
\* M2Ultra, M3, M3Pro and M3Max get {0,0,0,0} and M1 gets {20,20,70,70}.
C8_GetSpecsTotal ==
    pc = "resolved" =>
        /\ chip \in AppleChip
        /\ specs \in [cpu_tdp : Nat, gpu_tdp : Nat, cpu_bw : Nat, gpu_bw : Nat]
        /\ chip \in {"Unknown", "M2Ultra", "M3", "M3Pro", "M3Max"}
              => specs = ChipSpecs(0, 0, 0, 0)
        /\ chip = "M1" => specs = ChipSpecs(20, 20, 70, 70)

C8_Witness ==
    /\ pc = "resolved"
    /\ chip = "M2Ultra"
    /\ specs = ChipSpecs(0, 0, 0, 0)

\* C9: SocInfo::new executes sysctl before system_profiler; the first
\* failing step ends it with that step's error; system_profiler is never
\* executed after a failed CPU path; a record exists only after both
\* commands ran and both outputs parsed.
C9_ShortCircuit ==
    /\ \/ executed = <<>>
       \/ executed = <<SYSCTL_PATH>>
       \/ executed = <<SYSCTL_PATH, SYSTEM_PROFILER_PATH>>
    /\ IsErr(cpuRes) => executed = <<SYSCTL_PATH>> /\ pc = "failed" /\ socRes = cpuRes
    /\ IsErr(gpuRes) => IsOk(cpuRes) /\ pc = "failed" /\ socRes = gpuRes
    /\ pc = "failed" => IsErr(socRes) /\ (IsErr(cpuRes) \/ IsErr(gpuRes))
    /\ IsOk(socRes) =>
          /\ pc = "done"
          /\ executed = <<SYSCTL_PATH, SYSTEM_PROFILER_PATH>>
          /\ IsOk(cpuRes) /\ IsOk(gpuRes)
    /\ pc = "done" <=> IsOk(socRes)

C9_Witness ==
    /\ pc = "failed"
    /\ executed = <<SYSCTL_PATH>>
    /\ IsErrKind(cpuRes, "ParseInt")
    /\ socRes = cpuRes
    /\ gpuRes = None

====
